---- MODULE Spec2Model ----
(***************************************************************************)
(* A model of the trust-establishment subsystem of otf:                    *)
(*   - the terraform login protocol (Auth and Token handlers, PKCE),       *)
(*     internal/controllers/tfapi/login.go;                                *)
(*   - the signed upload route and the upload handler,                     *)
(*     internal/controllers/tfeapi/{tfeapi,configuration_version}.go;      *)
(*   - the configuration version lifecycle,                                *)
(*     internal/configversion/service.go.                                  *)
(* The login handlers are stateless: their model keeps the last request    *)
(* and its response. The upload side keeps the store of configuration      *)
(* versions, the blob cache and the upload requests in flight.             *)
(***************************************************************************)
EXTENDS Integers, Naturals, Sequences, FiniteSets, TLC

VARIABLES
    req,        \* login: the parameters of the last Auth or Token request
    resp,       \* login: the response written to it
    minted,     \* login: number of tokens the token issuer has created
    maxUploadSize, \* upload: TerraformEnterpriseAPIService.maxUploadSize
    now,        \* upload: the clock the signed URL verifier reads
    cvs,        \* upload: the store, version id -> configuration version
    cache,      \* upload: the blob cache, version id -> archive bytes
    urls,       \* upload: version id -> expiry of the signed URL handed out
    puts,       \* upload: the PUT requests, slot -> request in flight
    call,       \* service: the last call of a Service operation and its result
    discoveryPayload, \* login: the package variable discoveryPayload
    redeemed,   \* login: the codes the issuer created a token for, in order
    api,        \* upload: the last response of a configuration version handler
    creating    \* upload: version id -> the version Service.Create returned
                \* to a create request that has not signed its URL yet

loginVars == <<req, resp, minted, discoveryPayload, redeemed>>
uploadVars == <<maxUploadSize, now, cvs, cache, urls, puts, api, creating>>
vars ==
    <<req, resp, minted, maxUploadSize, now, cvs, cache, urls, puts, call,
      discoveryPayload, redeemed, api, creating>>

(***************************************************************************)
(* Bounds of the model.                                                    *)
(***************************************************************************)
MaxMint == 2
MaxLimit == 1
MaxTime == 2

(***************************************************************************)
(* Login protocol: constants of login.go.                                  *)
(***************************************************************************)
OAuthClientID == "terraform"
ErrInvalidRequest == "invalid_request"
ErrInvalidGrant == "invalid_grant"
ErrInvalidClient == "invalid_client"
ErrUnsupportedGrantType == "unsupported_grant_type"
ErrUnsupportedResponseType == "unsupported_response_type"
ErrAccessDenied == "access_denied"
ErrServerError == "server_error"

\* the routes of tfapi.go
WellknownRoute == "/.well-known/terraform.json"
AuthRoute == "/app/oauth2/auth"
TokenRoute == "/oauth2/token"

OAuthErrors ==
    { ErrInvalidRequest, ErrInvalidGrant, ErrInvalidClient,
      ErrUnsupportedGrantType, ErrUnsupportedResponseType,
      ErrAccessDenied, ErrServerError }

(***************************************************************************)
(* Inputs of the login handlers.                                           *)
(***************************************************************************)
ClientIDs == { "terraform", "Terraform" }
Verifiers == { "", "myverifier", "myverifieR" }
Users == { "bobby", "alice" }
NoUser == "<no subject>"
States == { "", "somethingrandom" }
Methods == { "GET", "POST" }
RedirectURIs == { "https://localhost:10000", "/callback", "", ":10000" }
Secret == "process-secret"
Keys == { Secret, "other-secret" }
NoErr == "<nil>"

\* hash := sha256.Sum256([]byte(verifier));
\* encoded := base64.RawURLEncoding.EncodeToString(hash[:])
\* tabulated on Verifiers with the values the two library calls return.
PKCEChallenge(verifier) ==
    CASE verifier = "myverifier" -> "Eb223qLjTQNFkRjCVsrDbsBk5ycPKwHdbHNRX99tTeQ"
      [] verifier = "myverifieR" -> "LjLBB75njD7UZx47wBwzEofu0gIAgnSQ9fO9uBEyEmQ"
      [] verifier = "" -> "47DEQpj8HBSa-_TImW-5JCeuQeRkm5NMpJWZG3hSuFU"

Challenges == { PKCEChallenge(v) : v \in Verifiers } \cup { "", "myverifier" }
ChallengeMethods == { "S256", "plain" }

\* url.Parse on RedirectURIs: it fails only on a malformed string (here a
\* first path segment with a colon and no scheme); an empty string and a
\* relative reference parse without error.
URLParseErr(uri) == uri = ":10000"
URLIsAbs(uri) == uri = "https://localhost:10000"

\* url[0] == '/' on RedirectURIs
URLIsRooted(uri) == uri = "/callback"

\* olddir, _ := path.Split(r.URL.Path) on the routes of the login handlers
PathDir(path) ==
    CASE path = AuthRoute -> "/app/oauth2/"
      [] path = TokenRoute -> "/oauth2/"

\* http.Redirect(w, r, url, code): the path of the Location header, the
\* query left aside. A url with a scheme is sent as given; one without is
\* made an absolute path: unless it starts with '/', the directory of the
\* request path is put before it.
HTTPRedirect(path, uri) ==
    IF URLIsAbs(uri) THEN uri
    ELSE IF uri = "" \/ ~URLIsRooted(uri) THEN PathDir(path) \o uri
    ELSE uri

(***************************************************************************)
(* Authorization codes. A code is the string internal.Encrypt returns for  *)
(* the JSON of an authcode; what a client presents to Token is any string: *)
(* the empty string, a string that is no ciphertext, or a ciphertext made  *)
(* under some key of some plaintext (the JSON of an authcode, or bytes     *)
(* that are no JSON).                                                      *)
(***************************************************************************)
EmptyCode ==
    [ kind |-> "empty", key |-> "", json |-> FALSE,
      challenge |-> "", method |-> "", username |-> "" ]
GarbageCode ==
    [ kind |-> "garbage", key |-> "", json |-> FALSE,
      challenge |-> "", method |-> "", username |-> "" ]

\* json.Marshal(&authcode{...}) followed by internal.Encrypt(marshaled, key).
\* internal.Encrypt and internal.Decrypt are not among the sources: a code
\* is the record of what was sealed and under which key, and Decrypt is
\* the ideal opening of section 4.3 of the specification. That a code
\* opens under its own key to the sealed bytes, and under no other key, is
\* therefore an assumption of this model about the pair, and nothing
\* checked here establishes it of the implementation.
Seal(challenge, method, username, key) ==
    [ kind |-> "sealed", key |-> key, json |-> TRUE,
      challenge |-> challenge, method |-> method, username |-> username ]

\* internal.Encrypt(bytes, key) of bytes that are not the JSON of an object
SealRaw(key) ==
    [ kind |-> "sealed", key |-> key, json |-> FALSE,
      challenge |-> "", method |-> "", username |-> "" ]

\* internal.Decrypt(code, key): an error unless code was sealed under key
DecryptErr(code, key) == ~(code.kind = "sealed" /\ code.key = key)

\* the bytes that were sealed into a code
PayloadOf(code) ==
    [ json |-> code.json, challenge |-> code.challenge,
      method |-> code.method, username |-> code.username ]

\* internal.Decrypt(code, key): the sealed bytes, or the integrity error
Decrypt(code, key) ==
    IF DecryptErr(code, key)
    THEN [ ok |-> FALSE, payload |-> PayloadOf(EmptyCode) ]
    ELSE [ ok |-> TRUE, payload |-> PayloadOf(code) ]

\* json.Unmarshal(decrypted, &code)
UnmarshalErrNever(code) == FALSE

UnmarshalErr(code) == ~code.json

Codes ==
    { EmptyCode, GarbageCode }
    \cup { SealRaw(k) : k \in Keys }
    \cup { Seal(c, m, u, k) : c \in Challenges, m \in { "S256" },
                              u \in Users, k \in Keys }

(***************************************************************************)
(* Responses. A handler writes one response: a direct status              *)
(* (http.Error), a redirect (http.Redirect, 302), a rendered page, or the  *)
(* JSON body of Token. The optional query parameters and the calls made to *)
(* the token issuer are sequences of length 0 or 1; steps lists, in        *)
(* order, what Token did with the code before it answered.                 *)
(***************************************************************************)
NoResp ==
    [ kind |-> "none", status |-> 0, body |-> "", location |-> "",
      error |-> <<>>, description |-> <<>>, state |-> <<>>, code |-> <<>>,
      contentType |-> "", cacheControl |-> "", accessToken |-> <<>>,
      contentTypeOptions |-> "", tokenType |-> "", issuerCalls |-> <<>>,
      steps |-> <<>>, payload |-> <<>> ]

NoReq ==
    [ handler |-> "none", method |-> "", decodeErr |-> FALSE,
      clientID |-> "", redirectURI |-> "", responseType |-> "",
      codeChallenge |-> "", codeChallengeMethod |-> "", state |-> "",
      consented |-> FALSE, subject |-> NoUser, encryptErr |-> FALSE,
      code |-> EmptyCode, codeVerifier |-> "", grantType |-> "",
      issuerErr |-> NoErr, issuerToken |-> "" ]

\* http.Error(w, msg, status): the message and a newline as plain text
HTTPError(msg, status) ==
    [ NoResp EXCEPT !.kind = "direct", !.status = status,
                    !.contentType = "text/plain; charset=utf-8",
                    !.contentTypeOptions = "nosniff",
                    !.body = msg \o "\n" ]

\* url.QueryEscape on the descriptions the handlers use: a space becomes
\* a plus sign; the other descriptions have no character to escape
QueryEscape(description) ==
    CASE description = "unsupported response type" ->
            "unsupported+response+type"
      [] description = "unsupported code challenge method" ->
            "unsupported+code+challenge+method"
      [] description = "user denied consent" -> "user+denied+consent"
      [] description = "no subject in context" -> "no+subject+in+context"
      [] description = "encrypt error" -> "encrypt+error"
      [] description = "missing code" -> "missing+code"
      [] description = "missing code verifier" -> "missing+code+verifier"
      [] description = "decrypting authentication code" ->
            "decrypting+authentication+code"
      [] description = "unmarshaling authentication code" ->
            "unmarshaling+authentication+code"
      [] description = "token store down" -> "token+store+down"
      [] OTHER -> description

\* q.Encode() of the parameters tokenRedirector.Error adds, in the order
\* of their keys, joined by amp: "&" in the Location, "&amp;" once
\* htmlEscape has run
ErrorQuery(state, err, description, amp) ==
    "error=" \o err
    \o (IF description # ""
        THEN amp \o "error_description=" \o QueryEscape(description)
        ELSE "")
    \o (IF state # "" THEN amp \o "state=" \o state ELSE "")

\* http.Redirect on a response with no Content-Type yet: for a GET it
\* sets the Content-Type of an HTML page
RedirectContentType(method) ==
    IF method = "GET" THEN "text/html; charset=utf-8" ELSE ""

\* http.Redirect: for a GET it writes a link to the escaped target, and
\* fmt.Fprintln ends it with a second newline
RedirectBody(method, location, query) ==
    IF method = "GET"
    THEN "<a href=\"" \o location \o "?" \o query \o "\">Found</a>.\n\n"
    ELSE ""

\* tokenRedirector.Error(err, description) on a request of the method and
\* path
RedirectErrorAlwaysDescribed(method, path, redirect, state, err, description) ==
    [ NoResp EXCEPT !.kind = "redirect", !.status = 302,
                    !.location = HTTPRedirect(path, redirect),
                    !.contentType = RedirectContentType(method),
                    !.body = RedirectBody(method,
                                          HTTPRedirect(path, redirect),
                                          ErrorQuery(state, err, description,
                                                     "&amp;")),
                    !.error = <<err>>,
                    !.description = <<description>>,
                    !.state = IF state # "" THEN <<state>> ELSE <<>> ]

RedirectErrorStateless(method, path, redirect, state, err, description) ==
    [ NoResp EXCEPT !.kind = "redirect", !.status = 302,
                    !.location = HTTPRedirect(path, redirect),
                    !.contentType = RedirectContentType(method),
                    !.body = RedirectBody(method,
                                          HTTPRedirect(path, redirect),
                                          ErrorQuery("", err, description,
                                                     "&amp;")),
                    !.error = <<err>>,
                    !.description =
                        IF description # "" THEN <<description>> ELSE <<>> ]

RedirectError(method, path, redirect, state, err, description) ==
    [ NoResp EXCEPT !.kind = "redirect", !.status = 302,
                    !.location = HTTPRedirect(path, redirect),
                    !.contentType = RedirectContentType(method),
                    !.body = RedirectBody(method,
                                          HTTPRedirect(path, redirect),
                                          ErrorQuery(state, err, description,
                                                     "&amp;")),
                    !.error = <<err>>,
                    !.description =
                        IF description # "" THEN <<description>> ELSE <<>>,
                    !.state = IF state # "" THEN <<state>> ELSE <<>> ]

\* params.ClientID != OAuthClientID, negated
ClientIDMatchesFolded(clientID) == clientID \in { "terraform", "Terraform" }

ClientIDMatches(clientID) == clientID = OAuthClientID

\* encoded != code.CodeChallenge, negated
PKCEMatchesPlain(verifier, challenge) ==
    PKCEChallenge(verifier) = challenge \/ verifier = challenge

PKCEMatches(verifier, challenge) == PKCEChallenge(verifier) = challenge

(***************************************************************************)
(* TerraformAPIService.Auth: the response to the request p.                *)
(* p.decodeErr is the outcome of decode.All, p.subject the user found in   *)
(* the request context (NoUser: none), p.encryptErr the outcome of         *)
(* internal.Encrypt.                                                       *)
(***************************************************************************)
AuthResponse(p) ==
    IF p.decodeErr
    THEN HTTPError("decode error", 422)
    ELSE IF URLParseErr(p.redirectURI)
    THEN HTTPError("invalid redirect_uri", 400)
    ELSE IF ~ClientIDMatches(p.clientID)
    THEN HTTPError(ErrInvalidClient, 400)
    ELSE IF p.responseType # "code"
    THEN RedirectError(p.method, AuthRoute, p.redirectURI,
                       p.state,
                       ErrUnsupportedResponseType,
                       "unsupported response type")
    ELSE IF p.codeChallengeMethod # "S256"
    THEN RedirectError(p.method, AuthRoute, p.redirectURI,
                       p.state, ErrInvalidRequest,
                       "unsupported code challenge method")
    ELSE IF p.method = "GET"
    THEN [ NoResp EXCEPT !.kind = "page", !.status = 200,
                         !.body = "consent.tmpl" ]
    ELSE IF ~p.consented
    THEN RedirectError(p.method, AuthRoute, p.redirectURI,
                       p.state, ErrAccessDenied,
                       "user denied consent")
    ELSE IF p.subject = NoUser
    THEN RedirectError(p.method, AuthRoute, p.redirectURI,
                       p.state, ErrServerError,
                       "no subject in context")
    ELSE IF p.encryptErr
    THEN RedirectError(p.method, AuthRoute, p.redirectURI,
                       p.state, ErrServerError,
                       "encrypt error")
    ELSE [ NoResp EXCEPT !.kind = "redirect", !.status = 302,
                         !.location = HTTPRedirect(AuthRoute, p.redirectURI),
                         !.state = <<p.state>>,
                         !.code = <<Seal(p.codeChallenge,
                                         p.codeChallengeMethod,
                                         p.subject, Secret)>> ]

(***************************************************************************)
(* TerraformAPIService.Token: the response to the request p.               *)
(* p.issuerErr and p.issuerToken are what tokenCreator.CreateToken         *)
(* returns when it is called. The tokenRedirector of Token has no state.   *)
(***************************************************************************)
TokenIssueIgnoresError(p) ==
    [ NoResp EXCEPT !.kind = "json", !.status = 200,
                    !.steps = <<"Decrypt", "Unmarshal", "PKCE", "CreateToken">>,
                    !.contentType = "application/json",
                    !.cacheControl = "no-store",
                    !.accessToken = <<p.issuerToken>>,
                    !.tokenType = "bearer",
                    !.issuerCalls = <<p.code.username>> ]

TokenIssue(p) ==
    IF p.issuerErr # NoErr
    THEN [ RedirectError(p.method, TokenRoute, p.redirectURI,
                         "", ErrInvalidRequest,
                         p.issuerErr)
             EXCEPT !.issuerCalls = <<p.code.username>>,
                    !.steps = <<"Decrypt", "Unmarshal", "PKCE", "CreateToken">> ]
    ELSE [ NoResp EXCEPT !.kind = "json", !.status = 200,
                         !.steps = <<"Decrypt", "Unmarshal", "PKCE",
                                     "CreateToken">>,
                         !.contentType = "application/json",
                         !.cacheControl = "no-store",
                         !.accessToken = <<p.issuerToken>>,
                         !.tokenType = "bearer",
                         !.issuerCalls = <<p.code.username>> ]

TokenResponse(p) ==
    IF p.decodeErr
    THEN HTTPError("decode error", 422)
    ELSE IF URLParseErr(p.redirectURI)
    THEN HTTPError("invalid redirect_uri", 400)
    ELSE IF ~ClientIDMatches(p.clientID)
    THEN HTTPError(ErrInvalidClient, 400)
    ELSE IF p.code.kind = "empty"
    THEN RedirectError(p.method, TokenRoute, p.redirectURI,
                       "", ErrInvalidRequest,
                       "missing code")
    ELSE IF p.codeVerifier = ""
    THEN RedirectError(p.method, TokenRoute, p.redirectURI,
                       "", ErrInvalidRequest,
                       "missing code verifier")
    ELSE IF p.grantType # "authorization_code"
    THEN RedirectError(p.method, TokenRoute, p.redirectURI,
                       "", ErrUnsupportedGrantType,
                       "")
    ELSE IF DecryptErr(p.code, Secret)
    THEN [ RedirectError(p.method, TokenRoute, p.redirectURI,
                         "", ErrInvalidRequest,
                         "decrypting authentication code")
             EXCEPT !.steps = <<"Decrypt">> ]
    ELSE IF UnmarshalErr(p.code)
    THEN [ RedirectError(p.method, TokenRoute, p.redirectURI,
                         "", ErrInvalidRequest,
                         "unmarshaling authentication code")
             EXCEPT !.steps = <<"Decrypt", "Unmarshal">> ]
    ELSE IF ~PKCEMatches(p.codeVerifier, p.code.challenge)
    THEN [ RedirectError(p.method, TokenRoute, p.redirectURI,
                         "", ErrInvalidGrant,
                         PKCEChallenge(p.codeVerifier))
             EXCEPT !.steps = <<"Decrypt", "Unmarshal", "PKCE">> ]
    ELSE TokenIssue(p)

(***************************************************************************)
(* The login requests. A request is served from the idle state and its     *)
(* response stays until Close returns the server to the idle state.        *)
(***************************************************************************)
AuthRequests ==
    { [ NoReq EXCEPT !.handler = "Auth", !.method = m, !.decodeErr = de,
                     !.clientID = cid, !.redirectURI = uri,
                     !.responseType = rt, !.codeChallenge = ch,
                     !.codeChallengeMethod = cm, !.state = st,
                     !.consented = co, !.subject = su, !.encryptErr = ee ] :
        m \in Methods, de \in BOOLEAN, cid \in ClientIDs,
        uri \in RedirectURIs, rt \in { "code", "token" },
        ch \in Challenges, cm \in ChallengeMethods, st \in States,
        co \in BOOLEAN, su \in Users \cup { NoUser }, ee \in BOOLEAN }

IssuerResults ==
    { <<NoErr, "tok-1">>, <<NoErr, "">>, <<"token store down", "">> }

TokenRequests ==
    { [ NoReq EXCEPT !.handler = "Token", !.method = "POST",
                     !.decodeErr = de, !.clientID = cid,
                     !.redirectURI = uri, !.code = c, !.codeVerifier = v,
                     !.grantType = gt, !.issuerErr = ir[1],
                     !.issuerToken = ir[2] ] :
        de \in BOOLEAN, cid \in ClientIDs, uri \in RedirectURIs,
        c \in Codes, v \in Verifiers,
        gt \in { "authorization_code", "refresh_token" },
        ir \in IssuerResults }

Minted(r) == r.kind = "json"

\* Auth without the code_challenge_method check
AuthAnyChallengeMethod ==
    /\ resp = NoResp
    /\ \E p \in AuthRequests :
        /\ req' = p
        /\ resp' = AuthResponse([ p EXCEPT !.codeChallengeMethod = "S256" ])
    /\ UNCHANGED <<minted, discoveryPayload, redeemed, uploadVars, call>>

\* Auth that never renders the consent page
AuthIgnoresMethod ==
    /\ resp = NoResp
    /\ \E p \in AuthRequests :
        /\ req' = p
        /\ resp' = AuthResponse([ p EXCEPT !.method = "POST" ])
    /\ UNCHANGED <<minted, discoveryPayload, redeemed, uploadVars, call>>

\* Auth that takes every POST for a consent
AuthAssumesConsent ==
    /\ resp = NoResp
    /\ \E p \in AuthRequests :
        /\ req' = p
        /\ resp' = AuthResponse([ p EXCEPT !.consented = TRUE ])
    /\ UNCHANGED <<minted, discoveryPayload, redeemed, uploadVars, call>>

\* Auth that seals an empty code_challenge
AuthDropsChallenge ==
    /\ resp = NoResp
    /\ \E p \in AuthRequests :
        /\ req' = p
        /\ resp' = AuthResponse([ p EXCEPT !.codeChallenge = "" ])
    /\ UNCHANGED <<minted, discoveryPayload, redeemed, uploadVars, call>>

Auth ==
    /\ resp = NoResp
    /\ \E p \in AuthRequests :
        /\ req' = p
        /\ resp' = AuthResponse(p)
    /\ UNCHANGED <<minted, discoveryPayload, redeemed, uploadVars, call>>

\* Token without the grant_type check
TokenAnyGrantType ==
    /\ resp = NoResp
    /\ \E p \in TokenRequests :
        LET r == TokenResponse([ p EXCEPT !.grantType = "authorization_code" ])
        IN
        /\ Minted(r) => minted < MaxMint
        /\ req' = p
        /\ resp' = r
        /\ minted' = IF Minted(r) THEN minted + 1 ELSE minted
        /\ redeemed' = IF Minted(r) THEN Append(redeemed, p.code)
                       ELSE redeemed
    /\ UNCHANGED <<discoveryPayload, uploadVars, call>>

\* Token that refuses a code it has already exchanged for a token
TokenSingleUse ==
    /\ resp = NoResp
    /\ \E p \in TokenRequests :
        LET used == \E i \in 1..Len(redeemed) : redeemed[i] = p.code
            r == IF used THEN TokenResponse([ p EXCEPT !.code = EmptyCode ])
                 ELSE TokenResponse(p)
        IN
        /\ Minted(r) => minted < MaxMint
        /\ req' = p
        /\ resp' = r
        /\ minted' = IF Minted(r) THEN minted + 1 ELSE minted
        /\ redeemed' = IF Minted(r) THEN Append(redeemed, p.code)
                       ELSE redeemed
    /\ UNCHANGED <<discoveryPayload, uploadVars, call>>

Token ==
    /\ resp = NoResp
    /\ \E p \in TokenRequests :
        LET r == TokenResponse(p) IN
        /\ Minted(r) => minted < MaxMint
        /\ req' = p
        /\ resp' = r
        /\ minted' = IF Minted(r) THEN minted + 1 ELSE minted
        /\ redeemed' = IF Minted(r) THEN Append(redeemed, p.code)
                       ELSE redeemed
    /\ UNCHANGED <<discoveryPayload, uploadVars, call>>

(***************************************************************************)
(* Service discovery. discoveryPayload is a package variable holding the   *)
(* JSON of the discovery document; a JSON text is a sequence of            *)
(* <<name, value>> members in the order of the fields of the struct.       *)
(***************************************************************************)
APIPrefixV2 == "/api/v2/"
ModuleV1Prefix == "/v1/modules/"

\* the anonymous struct given to utils.MustJSONMarshal
DiscoveryDocument ==
    [ LoginV1 |-> [ Authz |-> AuthRoute, Token |-> TokenRoute,
                    Client |-> OAuthClientID, Ports |-> <<10000, 10010>> ],
      ModulesV1 |-> ModuleV1Prefix,
      MotdV1 |-> "/api/terraform/motd",
      StateV2 |-> APIPrefixV2,
      TfeV2 |-> APIPrefixV2,
      TfeV21 |-> APIPrefixV2,
      TfeV22 |-> APIPrefixV2 ]

\* utils.MustJSONMarshal of the document: members by their json tags
MustJSONMarshal(doc) ==
    << <<"login.v1", << <<"authz", doc.LoginV1.Authz>>,
                        <<"token", doc.LoginV1.Token>>,
                        <<"client", doc.LoginV1.Client>>,
                        <<"ports", doc.LoginV1.Ports>> >> >>,
       <<"modules.v1", doc.ModulesV1>>,
       <<"motd.v1", doc.MotdV1>>,
       <<"state.v2", doc.StateV2>>,
       <<"tfe.v2", doc.TfeV2>>,
       <<"tfe.v2.1", doc.TfeV21>>,
       <<"tfe.v2.2", doc.TfeV22>> >>

\* json.Unmarshal into a map, then the value of one member
Member(json, name) ==
    LET i == CHOOSE k \in 1..Len(json) : json[k][1] = name
    IN  json[i][2]

\* TerraformAPIService.Discovery without the Content-Type header
DiscoveryUntyped ==
    /\ resp = NoResp
    /\ req' = [ NoReq EXCEPT !.handler = "Discovery", !.method = "GET" ]
    /\ resp' = [ NoResp EXCEPT !.kind = "json", !.status = 200,
                               !.payload = discoveryPayload ]
    /\ UNCHANGED <<minted, discoveryPayload, redeemed, uploadVars, call>>

\* TerraformAPIService.Discovery
Discovery ==
    /\ resp = NoResp
    /\ req' = [ NoReq EXCEPT !.handler = "Discovery", !.method = "GET" ]
    /\ resp' = [ NoResp EXCEPT !.kind = "json", !.status = 200,
                               !.contentType = "application/json",
                               !.payload = discoveryPayload ]
    /\ UNCHANGED <<minted, discoveryPayload, redeemed, uploadVars, call>>

Close ==
    /\ resp # NoResp
    /\ req' = NoReq
    /\ resp' = NoResp
    /\ UNCHANGED <<minted, discoveryPayload, redeemed, uploadVars, call>>

(***************************************************************************)
(* Configuration versions: the store and the blob cache.                   *)
(* An id that was never handed out is "absent"; a deleted version keeps    *)
(* its id ("deleted"): NewConfigurationVersion never hands out an id       *)
(* twice.                                                                  *)
(***************************************************************************)
IDs == { "cv-1", "cv-2" }
Slots == { "a", "b" }
NoBytes == <<-1>>
NoURL == 0 - 1
\* time.Hour, the lifetime signConfigurationVersionUploadURL asks for, in
\* ticks of the clock
UploadURLTTL == 1

ConfigurationPending == "pending"
ConfigurationUploaded == "uploaded"
ConfigurationErrored == "errored"

AbsentCV == [ status |-> "absent", statusTimestamps |-> <<>> ]
DeletedCV == [ status |-> "deleted", statusTimestamps |-> <<>> ]

Min(a, b) == IF a < b THEN a ELSE b

\* the first n bytes of a request body; a body is determined by its length
Body(n) == [ i \in 1..n |-> i ]

\* NewConfigurationVersion(workspaceID, opts) at time t
NewConfigurationVersion(t) ==
    [ status |-> ConfigurationPending,
      statusTimestamps |-> << <<ConfigurationPending, t>> >> ]

\* ConfigurationVersion status update at time t
UpdateStatus(cv, status, t) ==
    [ cv EXCEPT !.status = status,
                !.statusTimestamps = Append(@, <<status, t>>) ]

Exists(store, id) == store[id].status \notin { "absent", "deleted" }

\* UploadConfig that leaves the store alone, and UploadConfig that acts on
\* a version in any status
UploadStoreNoop(store, id, outcome, t) == store

UploadStoreRewrites(store, id, outcome, t) ==
    IF ~Exists(store, id)
    THEN store
    ELSE IF outcome = "ok"
    THEN [ store EXCEPT ![id] = UpdateStatus(@, ConfigurationUploaded, t) ]
    ELSE [ store EXCEPT ![id] = UpdateStatus(@, ConfigurationErrored, t) ]

\* Service.Upload -> UploadConfig, the store after the call; outcome is
\* what the archive write did: "ok", "storage" (the write failed) or
\* "cancelled" (the request's context was cancelled during the write).
\* Only a pending version is uploaded.
UploadStore(store, id, outcome, t) ==
    IF ~Exists(store, id) \/ store[id].status # ConfigurationPending
    THEN store
    ELSE IF outcome = "ok"
    THEN [ store EXCEPT ![id] = UpdateStatus(@, ConfigurationUploaded, t) ]
    ELSE [ store EXCEPT ![id] = UpdateStatus(@, ConfigurationErrored, t) ]

\* the blob cache after the call: the bytes are committed together with
\* the transition to uploaded, and not at all otherwise
UploadCache(store, cch, id, buf, outcome) ==
    IF Exists(store, id) /\ store[id].status = ConfigurationPending
       /\ outcome = "ok"
    THEN [ cch EXCEPT ![id] = buf ]
    ELSE cch

\* the errors a Service operation returns
AuthorizationError == "access to the resource is not permitted"
NotFoundError == "resource not found"
StoreError == "store error"

\* Service.DownloadConfig: the error it returns
DownloadErr(store, cch, id, allow) ==
    IF ~Exists(store, id) THEN NotFoundError
    ELSE IF ~allow THEN AuthorizationError
    ELSE IF cch[id] = NoBytes THEN NotFoundError
    ELSE NoErr

\* the error Service.Upload returns, as the status tfeapi.Error writes for
\* it; 0: no error
UploadErr(store, id, outcome) ==
    IF ~Exists(store, id) THEN 404
    ELSE IF store[id].status # ConfigurationPending THEN 500
    ELSE IF outcome = "ok" THEN 0
    ELSE 500

(***************************************************************************)
(* Signed URLs. A signature is a MAC, under a key, of a path (here the id  *)
(* of the version in the path) and an expiry; the URL carries the          *)
(* signature and the expiry. What a client can present: no signature, a    *)
(* string that is no signature, a URL the server handed out, such a URL    *)
(* changed (one character of the signature, the path, the expiry), or a    *)
(* signature made with a key other than the server's.                      *)
(***************************************************************************)
SigVariants ==
    { "absent", "malformed", "issued", "altered", "otherpath", "extended",
      "otherkey" }

OtherID(id) == CHOOSE j \in IDs : j # id

\* the signature part of the URL a client presents for the path of id
Presented(variant, id, issued, t) ==
    CASE variant = "absent" ->
            [ kind |-> "absent", key |-> "", id |-> "", signedExpiry |-> 0,
              altered |-> FALSE, expiry |-> 0 ]
      [] variant = "malformed" ->
            [ kind |-> "malformed", key |-> "", id |-> "",
              signedExpiry |-> 0, altered |-> FALSE, expiry |-> 0 ]
      [] variant = "issued" ->
            [ kind |-> "mac", key |-> Secret, id |-> id,
              signedExpiry |-> issued[id], altered |-> FALSE,
              expiry |-> issued[id] ]
      [] variant = "altered" ->
            [ kind |-> "mac", key |-> Secret, id |-> id,
              signedExpiry |-> issued[id], altered |-> TRUE,
              expiry |-> issued[id] ]
      [] variant = "otherpath" ->
            [ kind |-> "mac", key |-> Secret, id |-> OtherID(id),
              signedExpiry |-> issued[OtherID(id)], altered |-> FALSE,
              expiry |-> issued[OtherID(id)] ]
      [] variant = "extended" ->
            [ kind |-> "mac", key |-> Secret, id |-> id,
              signedExpiry |-> issued[id], altered |-> FALSE,
              expiry |-> t + UploadURLTTL ]
      [] variant = "otherkey" ->
            [ kind |-> "mac", key |-> "other-secret", id |-> id,
              signedExpiry |-> t + UploadURLTTL, altered |-> FALSE,
              expiry |-> t + UploadURLTTL ]

\* a variant built from a URL of the server needs that URL to exist, and
\* a changed expiry differs from the one the server wrote
Presentable(variant, id, issued, t) ==
    CASE variant \in { "issued", "altered" } -> issued[id] # NoURL
      [] variant = "extended" ->
            issued[id] # NoURL /\ issued[id] # t + UploadURLTTL
      [] variant = "otherpath" -> issued[OtherID(id)] # NoURL
      [] OTHER -> TRUE

\* internal.VerifySignedURL(signer): the signature is the server's MAC of
\* this path and this expiry, and the expiry has not passed
VerifySignedURL(sig, id, t) ==
    /\ sig.kind = "mac"
    /\ ~sig.altered
    /\ sig.key = Secret
    /\ sig.id = id
    /\ sig.signedExpiry = sig.expiry
    /\ t <= sig.expiry

(***************************************************************************)
(* TerraformEnterpriseAPIService.AddHandlers: which chain serves a PUT     *)
(* to <prefix>/configuration-versions/{id}/upload. "signed": the handler   *)
(* behind the verifier; "open": the handler alone; "none": no route.       *)
(***************************************************************************)
Prefixes == { "/signed/{signature.expiry}", "/api/v2", "" }

UploadRouteUnderAPI(prefix) ==
    IF prefix = "/api/v2" THEN "open" ELSE "none"

UploadRoute(prefix) ==
    IF prefix = "/signed/{signature.expiry}" THEN "signed" ELSE "none"

(***************************************************************************)
(* TerraformEnterpriseAPIService.UploadConfigurationVersion.               *)
(***************************************************************************)
\* io.LimitReader(r.Body, s.maxUploadSize+1): bytes read of a body of n
ReadLimit(n, max) == Min(n, max + 1)

\* int64(len(buf)) > s.maxUploadSize
TooBigOffByOne(len, max) == len >= max

TooBig(len, max) == len > max

\* a PUT request: id and n are the version id of the path and the length
\* of the body, variant and late what was presented as signature and
\* whether the URL it derives from had expired on arrival; read, buf and
\* writes are the bytes read of the body, the bytes passed on and the
\* statuses written by tfeapi.Error; err is what s.cv.Upload returned
IdleSlot ==
    [ pc |-> "idle", id |-> "", n |-> 0, variant |-> "", late |-> FALSE,
      route |-> "none", verified |-> FALSE, ran |-> FALSE, read |-> 0,
      buf |-> <<>>, writes |-> <<>>, called |-> FALSE, outcome |-> "",
      err |-> 0 ]

\* the handler from its entry to the call of s.cv.Upload (pc "upload") or
\* to its return (pc "done")
UploadHandler(slot, n, idErr, readErr, max) ==
    LET read == ReadLimit(n, max)
        buf == Body(read)
    IN  IF idErr
        THEN [ slot EXCEPT !.pc = "done", !.ran = TRUE, !.writes = <<422>> ]
        ELSE IF readErr
        THEN [ slot EXCEPT !.pc = "done", !.ran = TRUE, !.writes = <<500>> ]
        ELSE IF TooBig(Len(buf), max)
        THEN \* tfeapi.Error writes the 422; the handler does not return
             [ slot EXCEPT !.pc = "upload", !.ran = TRUE, !.n = n,
                           !.read = read, !.buf = buf, !.writes = <<422>> ]
        ELSE [ slot EXCEPT !.pc = "upload", !.ran = TRUE, !.n = n,
                           !.read = read, !.buf = buf ]

\* the status the client sees: the first status written, 200 when the
\* handler returned without writing one
StatusOf(slot) == IF slot.writes = <<>> THEN 200 ELSE slot.writes[1]

\* the router and the verifier in front of the handler: a request with no
\* route gets 404, a request the verifier rejects is answered by the
\* verifier, the others reach the handler
ServePut(arrived, ok, n, idErr, readErr, max) ==
    IF arrived.route = "none"
    THEN [ arrived EXCEPT !.pc = "done", !.writes = <<404>> ]
    ELSE IF arrived.route = "signed" /\ ~ok
    THEN [ arrived EXCEPT !.pc = "done", !.writes = <<403>> ]
    ELSE UploadHandler([ arrived EXCEPT !.verified = (@ \/ ok) ],
                       n, idErr, readErr, max)

\* whether the URL of the server a variant derives from has expired
Late(variant, id, issued, t) ==
    CASE variant \in { "issued", "altered", "extended" } -> t > issued[id]
      [] variant = "otherpath" -> t > issued[OtherID(id)]
      [] OTHER -> FALSE

\* a PUT arrives: routing, the verifier, then the handler up to the call
\* of s.cv.Upload
PutArrive(s) ==
    /\ puts[s].pc = "idle"
    /\ \E prefix \in Prefixes, id \in IDs, variant \in SigVariants,
          n \in 0..(MaxLimit + 2), idErr \in BOOLEAN, readErr \in BOOLEAN :
        /\ Presentable(variant, id, urls, now)
        /\ n <= maxUploadSize + 2
        /\ (idErr \/ readErr) => n = 0
        /\ idErr => ~readErr
        /\ puts' =
             [ puts EXCEPT ![s] =
                 ServePut([ IdleSlot EXCEPT
                              !.id = id, !.variant = variant,
                              !.late = Late(variant, id, urls, now),
                              !.route = UploadRoute(prefix) ],
                          VerifySignedURL(Presented(variant, id, urls, now),
                                          id, now),
                          n, idErr, readErr, maxUploadSize) ]
    /\ UNCHANGED <<loginVars, creating, call, api, maxUploadSize, now, cvs,
                 cache, urls>>

\* Service.Upload(ctx, cvID, config): it calls UploadConfig
ServiceUpload(store, id, outcome, t) == UploadStore(store, id, outcome, t)

\* s.cv.Upload(ctx, id, buf) and the rest of the handler
PutStore(s) ==
    /\ puts[s].pc = "upload"
    /\ \E outcome \in { "ok", "storage", "cancelled" } :
        LET id == puts[s].id
            err == UploadErr(cvs, id, outcome)
        IN  /\ cvs' = ServiceUpload(cvs, id, outcome, now)
            /\ cache' = UploadCache(cvs, cache, id, puts[s].buf, outcome)
            /\ puts' = [ puts EXCEPT ![s].pc = "done", ![s].called = TRUE,
                                     ![s].outcome = outcome,
                                     ![s].err = err,
                                     ![s].writes =
                                        IF err = 0 THEN @ ELSE Append(@, err) ]
    /\ UNCHANGED <<loginVars, creating, call, api, maxUploadSize, now, urls>>

\* the response has been delivered
PutClose(s) ==
    /\ puts[s].pc = "done"
    /\ puts' = [ puts EXCEPT ![s] = IdleSlot ]
    /\ UNCHANGED <<loginVars, creating, call, api, maxUploadSize, now, cvs,
                 cache, urls>>

(***************************************************************************)
(* The lifecycle operations of Service and their handlers.                 *)
(* allow is the answer of Authorizer.CanAccess, dbErr the outcome of the   *)
(* store call, signErr the outcome of surl.Signer.Sign.                    *)
(***************************************************************************)
\* Service.Create: the store after the call, id being the fresh id
ServiceCreate(store, id, allow, dbErr, t) ==
    IF ~allow \/ dbErr
    THEN store
    ELSE [ store EXCEPT ![id] = NewConfigurationVersion(t) ]

\* Service.Delete: the store after the call
ServiceDelete(store, id, fetchErr, allow, dbErr) ==
    IF fetchErr \/ ~Exists(store, id) \/ ~allow \/ dbErr
    THEN store
    ELSE [ store EXCEPT ![id] = DeletedCV ]

\* createConfigurationVersion up to the return of Service.Create: the
\* version is persisted and the request goes on to sign the upload URL
CreateConfigurationVersion(id) ==
    \E allow \in BOOLEAN, dbErr \in BOOLEAN :
        /\ cvs[id].status = "absent"
        /\ cvs' = ServiceCreate(cvs, id, allow, dbErr, now)
        /\ creating' = IF allow /\ ~dbErr
                       THEN [ creating EXCEPT ![id] = cvs'[id] ]
                       ELSE creating
        /\ UNCHANGED <<loginVars, call, api, maxUploadSize, now, cache, urls,
                       puts>>

\* createConfigurationVersion from signConfigurationVersionUploadURL on:
\* the signer reads the clock when it is called
SignConfigurationVersionUploadURL(id) ==
    \E signErr \in BOOLEAN :
        /\ creating[id] # AbsentCV
        /\ creating' = [ creating EXCEPT ![id] = AbsentCV ]
        /\ urls' = IF signErr THEN urls
                   ELSE [ urls EXCEPT ![id] = now + UploadURLTTL ]
        /\ UNCHANGED <<loginVars, call, api, maxUploadSize, now, cvs, cache,
                       puts>>

\* the row delete of a Service.Delete made by another request
DeleteConfigurationVersion(id) ==
    \E fetchErr \in BOOLEAN, allow \in BOOLEAN, dbErr \in BOOLEAN :
        /\ cvs' = ServiceDelete(cvs, id, fetchErr, allow, dbErr)
        /\ UNCHANGED <<loginVars, creating, call, api, maxUploadSize, now,
                       cache, urls, puts>>

\* Service.Get, Service.List, Service.GetLatest, Service.Download: they
\* read the store and the cache and change nothing
GetConfigurationVersion == UNCHANGED vars
ListConfigurationVersions == UNCHANGED vars
GetLatestConfigurationVersion == UNCHANGED vars
DownloadConfigurationVersion == UNCHANGED vars

(***************************************************************************)
(* The operations of Service called directly, with the answer of the       *)
(* authorizer for the caller: allow is what Authorizer.CanAccess returns   *)
(* for the subject and the workspace of the target, whether or not the     *)
(* operation asks; fetchErr is a failure of the store when canAccess       *)
(* fetches the version. A call records whether CanAccess was called        *)
(* (checked), the error returned and whether the store or the cache        *)
(* changed. Get and Delete read the store in canAccess and go to the store *)
(* a second time afterwards: between the two (pc = "authorized") the       *)
(* requests of others run.                                                 *)
(***************************************************************************)
NoCall ==
    [ op |-> "none", id |-> "", allow |-> FALSE, fetchErr |-> FALSE,
      checked |-> FALSE, err |-> NoErr, changed |-> FALSE, pc |-> "done" ]

\* the error of an operation that asks s.workspace.CanAccess for a
\* workspace: Create, List, GetLatest
WorkspaceCallErr(allow, dbErr) ==
    IF ~allow THEN AuthorizationError
    ELSE IF dbErr THEN StoreError
    ELSE NoErr

\* Service.canAccess: the version is fetched, and any error of the fetch
\* is returned; then CanAccess is asked for the workspace of the version
VersionCallErr(store, id, fetchErr, allow) ==
    IF fetchErr THEN StoreError
    ELSE IF ~Exists(store, id) THEN NotFoundError
    ELSE IF ~allow THEN AuthorizationError
    ELSE NoErr

\* Service.canAccess reached the call of CanAccess
CanAccessAsked(store, id, fetchErr) == ~fetchErr /\ Exists(store, id)

\* Service.Get up to the return of canAccess: the record of the call
GetCall(store, id, fetchErr, allow) ==
    [ NoCall EXCEPT
        !.op = "Get", !.id = id, !.allow = allow, !.fetchErr = fetchErr,
        !.checked = CanAccessAsked(store, id, fetchErr),
        !.err = VersionCallErr(store, id, fetchErr, allow),
        !.pc = IF VersionCallErr(store, id, fetchErr, allow) = NoErr
               THEN "authorized" ELSE "done" ]

\* Service.Get: the error of s.db.GetConfigurationVersion, the second
\* read of the store, which sees the row as it is by then
GetFetchErr(store, id, dbErr) ==
    IF dbErr THEN StoreError
    ELSE IF ~Exists(store, id) THEN NotFoundError
    ELSE NoErr

\* Service.Create for the fresh id
Create(id) ==
    \E allow \in BOOLEAN, dbErr \in BOOLEAN :
        /\ call.pc = "done"
        /\ cvs[id].status = "absent"
        /\ cvs' = ServiceCreate(cvs, id, allow, dbErr, now)
        /\ call' = [ NoCall EXCEPT
                       !.op = "Create", !.id = id, !.allow = allow,
                       !.checked = TRUE,
                       !.err = WorkspaceCallErr(allow, dbErr),
                       !.changed = cvs' # cvs ]
        /\ UNCHANGED <<loginVars, creating, api, maxUploadSize, now, cache,
                       urls, puts>>

\* Service.List
List ==
    \E allow \in BOOLEAN, dbErr \in BOOLEAN :
        /\ call.pc = "done"
        /\ call' = [ NoCall EXCEPT
                       !.op = "List", !.allow = allow, !.checked = TRUE,
                       !.err = WorkspaceCallErr(allow, dbErr) ]
        /\ UNCHANGED <<loginVars, uploadVars>>

\* Service.GetLatest
GetLatest ==
    \E allow \in BOOLEAN, dbErr \in BOOLEAN :
        /\ call.pc = "done"
        /\ call' = [ NoCall EXCEPT
                       !.op = "GetLatest", !.allow = allow, !.checked = TRUE,
                       !.err = WorkspaceCallErr(allow, dbErr) ]
        /\ UNCHANGED <<loginVars, uploadVars>>

\* Service.Get up to the return of canAccess
Get(id) ==
    \E fetchErr \in BOOLEAN, allow \in BOOLEAN :
        /\ call.pc = "done"
        /\ call' = GetCall(cvs, id, fetchErr, allow)
        /\ UNCHANGED <<loginVars, uploadVars>>

\* Service.Get from s.db.GetConfigurationVersion on: the second read of
\* the store
GetFetch ==
    \E dbErr \in BOOLEAN :
        /\ call.op = "Get"
        /\ call.pc = "authorized"
        /\ call' = [ call EXCEPT
                       !.pc = "done",
                       !.err = GetFetchErr(cvs, call.id, dbErr) ]
        /\ UNCHANGED <<loginVars, uploadVars>>

\* Service.Delete up to the return of canAccess
Delete(id) ==
    \E fetchErr \in BOOLEAN, allow \in BOOLEAN :
        LET err == VersionCallErr(cvs, id, fetchErr, allow) IN
        /\ call.pc = "done"
        /\ call' = [ NoCall EXCEPT
                       !.op = "Delete", !.id = id, !.allow = allow,
                       !.fetchErr = fetchErr,
                       !.checked = CanAccessAsked(cvs, id, fetchErr),
                       !.err = err,
                       !.pc = IF err = NoErr THEN "authorized" ELSE "done" ]
        /\ UNCHANGED <<loginVars, uploadVars>>

\* Service.Delete from s.db.DeleteConfigurationVersion on. What the store
\* answers when the row is gone by then is not in the sources: it is
\* either no error or the not found error.
DeleteRow ==
    \E dbErr \in BOOLEAN, goneErr \in { NoErr, NotFoundError } :
        /\ call.op = "Delete"
        /\ call.pc = "authorized"
        /\ cvs' = IF dbErr \/ ~Exists(cvs, call.id) THEN cvs
                  ELSE [ cvs EXCEPT ![call.id] = DeletedCV ]
        /\ call' = [ call EXCEPT
                       !.pc = "done",
                       !.err = IF dbErr THEN StoreError
                               ELSE IF ~Exists(cvs, call.id) THEN goneErr
                               ELSE NoErr,
                       !.changed = cvs' # cvs ]
        /\ UNCHANGED <<loginVars, creating, api, maxUploadSize, now, cache,
                       urls, puts>>

\* Service.Upload: it hands the call to UploadConfig and asks no
\* authorizer
Upload(id) ==
    \E allow \in BOOLEAN, n \in 0..1, outcome \in { "ok", "storage" } :
        /\ call.pc = "done"
        /\ cvs' = ServiceUpload(cvs, id, outcome, now)
        /\ cache' = UploadCache(cvs, cache, id, Body(n), outcome)
        /\ call' = [ NoCall EXCEPT
                       !.op = "Upload", !.id = id, !.allow = allow,
                       !.err = IF UploadErr(cvs, id, outcome) = 0
                               THEN NoErr
                               ELSE IF ~Exists(cvs, id) THEN NotFoundError
                               ELSE StoreError,
                       !.changed = cvs' # cvs \/ cache' # cache ]
        /\ UNCHANGED <<loginVars, creating, api, maxUploadSize, now, urls,
                       puts>>

\* Service.Download: it hands the call to DownloadConfig
Download(id) ==
    \E allow \in BOOLEAN :
        /\ call.pc = "done"
        /\ call' = [ NoCall EXCEPT
                       !.op = "Download", !.id = id, !.allow = allow,
                       !.checked = Exists(cvs, id),
                       !.err = DownloadErr(cvs, cache, id, allow) ]
        /\ UNCHANGED <<loginVars, uploadVars>>

(***************************************************************************)
(* The configuration version handlers with their responses. A response is  *)
(* what convertConfigurationVersion builds: the status of the version and  *)
(* its upload URL; a list response carries the ids of its items, each      *)
(* converted with the same upload URL. paramErr is the outcome of          *)
(* decode.Param, decode.All or unmarshal, signErr that of Signer.Sign.     *)
(***************************************************************************)
ParamError == "invalid request parameters"
SignError == "signing failed"

RequestHost == "https://otf.example"

\* the empty upload URL
NoSignedURL == [ host |-> "", path |-> "", key |-> "", expiry |-> NoURL ]

\* fmt.Sprintf("/configuration-versions/%s/upload", ID)
UploadPath(id) == "/configuration-versions/" \o id \o "/upload"

\* s.signer.Sign(path, ttl) at time t
Sign(path, ttl, t) ==
    [ host |-> "", path |-> path, key |-> Secret, expiry |-> t + ttl ]

\* ihttp.Absolute(r, url): the url on the scheme and host of the request
Absolute(host, url) == [ url EXCEPT !.host = host ]

\* no handler has answered yet
NoAPI ==
    [ handler |-> "none", id |-> "", err |-> NoErr, status |-> "",
      items |-> {}, uploadURL |-> NoSignedURL ]

\* a handler returns an error
APIError(handler, id, err) ==
    [ NoAPI EXCEPT !.handler = handler, !.id = id, !.err = err ]

\* convertConfigurationVersion(cv, url)
ConvertConfigurationVersion(handler, id, cv, url) ==
    [ NoAPI EXCEPT !.handler = handler, !.id = id, !.status = cv.status,
                   !.uploadURL = url ]

\* createConfigurationVersion for the fresh id, up to the return of
\* Service.Create: an error is answered at once, and otherwise the
\* version is persisted and the request goes on to sign the upload URL
createConfigurationVersion(id) ==
    \E paramErr \in BOOLEAN, allow \in BOOLEAN, dbErr \in BOOLEAN :
        LET created == ServiceCreate(cvs, id, allow, dbErr, now)
            err == WorkspaceCallErr(allow, dbErr)
        IN  /\ cvs[id].status = "absent"
            /\ paramErr => (allow /\ ~dbErr)
            /\ cvs' = IF paramErr THEN cvs ELSE created
            /\ creating' = IF paramErr \/ err # NoErr THEN creating
                           ELSE [ creating EXCEPT ![id] = created[id] ]
            /\ api' = IF paramErr THEN APIError("create", id, ParamError)
                      ELSE IF err # NoErr THEN APIError("create", id, err)
                      ELSE api
            /\ UNCHANGED <<loginVars, call, maxUploadSize, now, cache, urls,
                           puts>>

\* createConfigurationVersion from signConfigurationVersionUploadURL on:
\* the signer reads the clock when it is called, and the response carries
\* the version as Service.Create returned it
signConfigurationVersionUploadURL(id) ==
    \E signErr \in BOOLEAN :
        LET url == Absolute(RequestHost,
                            Sign(UploadPath(id), UploadURLTTL, now))
        IN  /\ creating[id] # AbsentCV
            /\ creating' = [ creating EXCEPT ![id] = AbsentCV ]
            /\ urls' = IF signErr THEN urls
                       ELSE [ urls EXCEPT ![id] = url.expiry ]
            /\ api' = IF signErr THEN APIError("create", id, SignError)
                      ELSE ConvertConfigurationVersion("create", id,
                                                       creating[id], url)
            /\ UNCHANGED <<loginVars, call, maxUploadSize, now, cvs, cache,
                           puts>>

\* getConfigurationVersion up to the return of canAccess in Service.Get:
\* an error is answered at once, and otherwise the request goes on to
\* read the version
getConfigurationVersion(id) ==
    \E paramErr \in BOOLEAN, fetchErr \in BOOLEAN, allow \in BOOLEAN :
        LET got == GetCall(cvs, id, fetchErr, allow)
        IN  /\ call.pc = "done"
            /\ paramErr => (~fetchErr /\ allow)
            /\ call' = IF paramErr THEN call ELSE got
            /\ api' = IF paramErr THEN APIError("get", id, ParamError)
                      ELSE IF got.err # NoErr
                      THEN APIError("get", id, got.err)
                      ELSE api
            /\ UNCHANGED <<loginVars, creating, maxUploadSize, now, cvs,
                           cache, urls, puts>>

\* the rest of getConfigurationVersion, signing an upload URL for the
\* version
getConfigurationVersionFetchSigned ==
    \E dbErr \in BOOLEAN :
        LET err == GetFetchErr(cvs, call.id, dbErr)
        IN  /\ call.op = "Get"
            /\ call.pc = "authorized"
            /\ call' = [ call EXCEPT !.pc = "done", !.err = err ]
            /\ api' = IF err # NoErr THEN APIError("get", call.id, err)
                      ELSE ConvertConfigurationVersion(
                               "get", call.id, cvs[call.id],
                               Absolute(RequestHost,
                                        Sign(UploadPath(call.id),
                                             UploadURLTTL, now)))
            /\ UNCHANGED <<loginVars, creating, maxUploadSize, now, cvs,
                           cache, urls, puts>>

\* getConfigurationVersion from the second read of Service.Get on: the
\* version is answered as the store has it by then, with no upload URL
getConfigurationVersionFetch ==
    \E dbErr \in BOOLEAN :
        LET err == GetFetchErr(cvs, call.id, dbErr)
        IN  /\ call.op = "Get"
            /\ call.pc = "authorized"
            /\ call' = [ call EXCEPT !.pc = "done", !.err = err ]
            /\ api' = IF err # NoErr THEN APIError("get", call.id, err)
                      ELSE ConvertConfigurationVersion("get", call.id,
                                                       cvs[call.id],
                                                       NoSignedURL)
            /\ UNCHANGED <<loginVars, creating, maxUploadSize, now, cvs,
                           cache, urls, puts>>

\* listConfigurationVersions
listConfigurationVersions ==
    \E paramErr \in BOOLEAN, allow \in BOOLEAN, dbErr \in BOOLEAN :
        LET err == WorkspaceCallErr(allow, dbErr)
        IN  /\ paramErr => (allow /\ ~dbErr)
            /\ api' = IF paramErr THEN APIError("list", "", ParamError)
                      ELSE IF err # NoErr THEN APIError("list", "", err)
                      ELSE [ NoAPI EXCEPT
                               !.handler = "list",
                               !.items = { id \in IDs : Exists(cvs, id) },
                               !.uploadURL = NoSignedURL ]
            /\ UNCHANGED <<loginVars, creating, call, maxUploadSize, now,
                           cvs, cache, urls, puts>>

\* the clock advances
Tick ==
    /\ now < MaxTime
    /\ now' = now + 1
    /\ UNCHANGED <<loginVars, creating, call, api, maxUploadSize, cvs, cache,
                 urls, puts>>

(***************************************************************************)
(* Specifications.                                                         *)
(***************************************************************************)
LoginIdle ==
    /\ req = NoReq
    /\ resp = NoResp
    /\ minted = 0
    /\ redeemed = <<>>
    /\ discoveryPayload = MustJSONMarshal(DiscoveryDocument)

UploadIdle ==
    /\ now = 0
    /\ cvs = [ id \in IDs |-> AbsentCV ]
    /\ cache = [ id \in IDs |-> NoBytes ]
    /\ urls = [ id \in IDs |-> NoURL ]
    /\ puts = [ s \in Slots |-> IdleSlot ]
    /\ call = NoCall
    /\ api = NoAPI
    /\ creating = [ id \in IDs |-> AbsentCV ]

LoginInit == LoginIdle /\ UploadIdle /\ maxUploadSize = MaxLimit

UploadInit == LoginIdle /\ UploadIdle /\ maxUploadSize \in 0..MaxLimit

LoginNext == Auth \/ Token \/ Discovery \/ Close

\* the upload route: one PUT at a time to the path of any id; cv-1 is
\* the version that gets created, cv-2 stays an id without a version
UploadNext ==
    \/ CreateConfigurationVersion("cv-1")
    \/ SignConfigurationVersionUploadURL("cv-1")
    \/ GetConfigurationVersion
    \/ ListConfigurationVersions
    \/ GetLatestConfigurationVersion
    \/ DownloadConfigurationVersion
    \/ Tick
    \/ PutArrive("a")
    \/ PutStore("a")
    \/ PutClose("a")

\* concurrent requests on one version id
ConcurrentNext ==
    \/ CreateConfigurationVersion("cv-1")
    \/ SignConfigurationVersionUploadURL("cv-1")
    \/ GetConfigurationVersion
    \/ ListConfigurationVersions
    \/ GetLatestConfigurationVersion
    \/ DownloadConfigurationVersion
    \/ Tick
    \/ \E s \in Slots : PutArrive(s)
    \/ \E s \in Slots : PutStore(s)
    \/ \E s \in Slots : PutClose(s)

\* the operations of Service, called by any subject
LifecycleNext ==
    \/ \E id \in IDs : Create(id)
    \/ List
    \/ GetLatest
    \/ \E id \in IDs : Get(id)
    \/ GetFetch
    \/ \E id \in IDs : Delete(id)
    \/ DeleteRow
    \/ \E id \in IDs : DeleteConfigurationVersion(id)
    \/ \E id \in IDs : Upload(id)
    \/ \E id \in IDs : Download(id)
    \/ Tick

\* the configuration version handlers and their responses, with the
\* deletions other requests make in between; cv-1 is the version that gets
\* created, cv-2 stays an id without a version
APINext ==
    \/ createConfigurationVersion("cv-1")
    \/ signConfigurationVersionUploadURL("cv-1")
    \/ \E id \in IDs : getConfigurationVersion(id)
    \/ getConfigurationVersionFetch
    \/ \E id \in IDs : DeleteConfigurationVersion(id)
    \/ listConfigurationVersions
    \/ Tick

Init == UploadInit
Next ==
    \/ LoginNext
    \/ UploadNext
    \/ ConcurrentNext
    \/ LifecycleNext
    \/ APINext

SpecLogin == LoginInit /\ [][LoginNext]_vars
SpecUpload == UploadInit /\ [][UploadNext]_vars
SpecConcurrent == UploadInit /\ [][ConcurrentNext]_vars
SpecLifecycle == UploadInit /\ [][LifecycleNext]_vars
SpecAPI == UploadInit /\ [][APINext]_vars
Spec == Init /\ [][Next]_vars

(***************************************************************************)
(* Properties of the login protocol (SpecLogin).                           *)
(***************************************************************************)
\* the request passed decode.All, url.Parse and the client_id check
PastClientCheck ==
    /\ req.handler \in { "Auth", "Token" }
    /\ ~req.decodeErr
    /\ ~URLParseErr(req.redirectURI)
    /\ req.clientID = OAuthClientID

\* Token answered 200 with an access token
TokenSucceeded ==
    resp.kind = "json" /\ resp.status = 200 /\ Len(resp.accessToken) = 1

\* Token redirected with error=invalid_grant and did not call the issuer
TokenInvalidGrant ==
    /\ resp.kind = "redirect"
    /\ resp.error = <<ErrInvalidGrant>>
    /\ resp.issuerCalls = <<>>

\* a Token request with valid client_id and redirect_uri, a code sealed
\* under the process secret and grant_type=authorization_code
SealedCodePresented ==
    /\ PastClientCheck
    /\ req.handler = "Token"
    /\ req.code.kind = "sealed" /\ req.code.key = Secret /\ req.code.json
    /\ req.grantType = "authorization_code"

\* C1 as stated: for every sealed code and every code_verifier, Token
\* succeeds iff base64url(sha256(code_verifier)) equals the sealed
\* code_challenge, and every verifier other than the original is answered
\* with invalid_grant without a call of the token issuer.
C1_AsStated ==
    SealedCodePresented =>
        /\ TokenSucceeded <=>
               PKCEChallenge(req.codeVerifier) = req.code.challenge
        /\ \A v \in Verifiers :
               (PKCEChallenge(v) = req.code.challenge /\ req.codeVerifier # v)
                   => TokenInvalidGrant

\* C1 amended: for a non-empty code_verifier, Token succeeds iff the hash
\* of the verifier equals the sealed code_challenge and the token issuer
\* returns no error; every non-empty verifier other than the original is
\* answered with invalid_grant without a call of the token issuer.
C1_PKCE ==
    (SealedCodePresented /\ req.codeVerifier # "") =>
        /\ TokenSucceeded <=>
               /\ PKCEChallenge(req.codeVerifier) = req.code.challenge
               /\ req.issuerErr = NoErr
        /\ \A v \in Verifiers :
               (PKCEChallenge(v) = req.code.challenge /\ req.codeVerifier # v)
                   => TokenInvalidGrant

C1_Witness ==
    /\ SealedCodePresented
    /\ req.codeVerifier = "myverifieR"
    /\ req.code.challenge = PKCEChallenge("myverifier")
    /\ TokenInvalidGrant

\* no code issued and no token minted
NothingIssued ==
    resp.code = <<>> /\ resp.accessToken = <<>> /\ resp.issuerCalls = <<>>

\* C8 as stated: in Auth and Token, a client_id other than "terraform"
\* gets a direct HTTP 400, never a redirect, whatever the other
\* parameters; no code is issued and no token is minted.
C8_AsStated ==
    (req.handler \in { "Auth", "Token" } /\ req.clientID # OAuthClientID) =>
        /\ resp.kind = "direct"
        /\ resp.status = 400
        /\ NothingIssued

\* C8 amended: such a request gets a direct client error, HTTP 400, or
\* HTTP 422 when the request parameters fail to decode, never a redirect;
\* no code is issued and no token is minted.
C8_UnknownClient ==
    (req.handler \in { "Auth", "Token" } /\ req.clientID # OAuthClientID) =>
        /\ resp.kind = "direct"
        /\ resp.status = IF req.decodeErr THEN 422 ELSE 400
        /\ resp.location = ""
        /\ NothingIssued

C8_Witness ==
    /\ req.handler = "Auth"
    /\ req.clientID = "Terraform"
    /\ ~req.decodeErr
    /\ URLIsAbs(req.redirectURI)
    /\ req.responseType = "code"
    /\ req.codeChallengeMethod = "S256"
    /\ req.method = "POST"
    /\ req.consented
    /\ req.subject = "bobby"
    /\ resp.kind = "direct"
    /\ resp.status = 400

\* C9 as stated: Auth answers every redirect_uri that is not an absolute
\* URL with a direct client error, and issues neither a redirect nor a
\* code.
C9_AsStated ==
    (req.handler = "Auth" /\ ~URLIsAbs(req.redirectURI)) =>
        /\ resp.kind = "direct"
        /\ resp.status \in 400..499
        /\ resp.code = <<>>

\* what Auth and Token answer when they succeed: the consent page or the
\* redirect with a code, the JSON body with the token
LoginSuccess ==
    \/ resp.kind = "page"
    \/ resp.kind = "json" /\ resp.status = 200
    \/ resp.kind = "redirect" /\ resp.error = <<>> /\ resp.code # <<>>

\* the Location of a redirect to the redirect_uri of the request: the
\* redirect_uri as given, and for an empty one the directory of the route
\* of the handler, which net/http puts before a target that does not
\* start with a slash
RedirectTarget ==
    IF req.redirectURI # "" THEN req.redirectURI
    ELSE IF req.handler = "Auth" THEN "/app/oauth2/"
    ELSE "/oauth2/"

\* C10: once redirect_uri has parsed and client_id has matched, every
\* failure of Auth and Token is a 302 to redirect_uri with error, one of
\* the seven identifiers, error_description only when non-empty and state
\* only when non-empty; none is answered with an HTTP error status.
C10_RedirectedErrors ==
    (PastClientCheck /\ ~LoginSuccess) =>
        /\ resp.kind = "redirect"
        /\ resp.status = 302
        /\ resp.location = RedirectTarget
        /\ Len(resp.error) = 1
        /\ resp.error[1] \in OAuthErrors
        /\ resp.description # <<>> => resp.description[1] # ""
        /\ resp.state # <<>> => (resp.state[1] # "" /\ resp.state[1] = req.state)
        /\ resp.code = <<>>
        /\ resp.accessToken = <<>>

C10_Witness ==
    /\ PastClientCheck
    /\ req.handler = "Token"
    /\ req.code.kind = "sealed"
    /\ req.codeVerifier = "myverifier"
    /\ req.grantType = "refresh_token"
    /\ resp.status = 302
    /\ resp.error = <<ErrUnsupportedGrantType>>
    /\ resp.description = <<>>

\* an Auth request that passed the redirect_uri and client_id checks
AuthChecked == req.handler = "Auth" /\ PastClientCheck

\* C11: Auth with a valid redirect_uri and client_id and response_type
\* other than "code" redirects to redirect_uri with
\* error=unsupported_response_type and the state of the request (no state
\* parameter when that is empty), whatever code_challenge_method, consent
\* and subject are.
C11_ResponseType ==
    (AuthChecked /\ req.responseType # "code") =>
        /\ resp.kind = "redirect"
        /\ resp.status = 302
        /\ resp.location = RedirectTarget
        /\ resp.error = <<ErrUnsupportedResponseType>>
        /\ req.state # "" => resp.state = <<req.state>>
        /\ req.state = "" => resp.state = <<>>
        /\ resp.code = <<>>

C11_Witness ==
    /\ AuthChecked
    /\ req.responseType = "token"
    /\ req.codeChallengeMethod = "plain"
    /\ req.method = "POST"
    /\ ~req.consented
    /\ req.subject = NoUser
    /\ req.state = "somethingrandom"
    /\ resp.error = <<ErrUnsupportedResponseType>>
    /\ resp.state = <<"somethingrandom">>

\* C12: Auth with response_type=code and code_challenge_method other than
\* "S256" redirects with error=invalid_request; no consent page is
\* rendered and no code is issued.
C12_ChallengeMethod ==
    (AuthChecked /\ req.responseType = "code"
                 /\ req.codeChallengeMethod # "S256") =>
        /\ resp.kind = "redirect"
        /\ resp.status = 302
        /\ resp.error = <<ErrInvalidRequest>>
        /\ resp.body # "consent.tmpl"
        /\ resp.code = <<>>

C12_Witness ==
    /\ AuthChecked
    /\ req.responseType = "code"
    /\ req.codeChallengeMethod = "plain"
    /\ req.method = "GET"
    /\ resp.kind = "redirect"
    /\ resp.error = <<ErrInvalidRequest>>

\* the request passed all four parameter checks of Auth
AuthParametersChecked ==
    /\ AuthChecked
    /\ req.responseType = "code"
    /\ req.codeChallengeMethod = "S256"

\* C13 as stated: a request that passed the four checks and has not been
\* consented (consented false or absent) gets the consent page: no
\* redirect is sent and no code is issued.
C13_AsStated ==
    (AuthParametersChecked /\ ~req.consented) =>
        /\ resp.kind = "page"
        /\ resp.location = ""
        /\ resp.code = <<>>

\* C13 amended: a request that passed the four checks and is a GET gets
\* the consent page, whatever its consented parameter: no redirect is sent
\* and no code is issued.
C13_ConsentPage ==
    (AuthParametersChecked /\ req.method = "GET") =>
        /\ resp.kind = "page"
        /\ resp.status = 200
        /\ resp.body = "consent.tmpl"
        /\ resp.location = ""
        /\ resp.error = <<>>
        /\ resp.code = <<>>

C13_Witness ==
    /\ AuthParametersChecked
    /\ req.method = "GET"
    /\ req.consented
    /\ req.subject = "bobby"
    /\ resp.kind = "page"
    /\ resp.code = <<>>

\* C14: every redirect of Auth that carries a code comes from a request
\* with consented=true, and a request in which consent was withheld (a
\* POST without consented) is redirected with error=access_denied and no
\* code.
C14_ConsentRequired ==
    /\ (req.handler = "Auth" /\ resp.code # <<>>) => req.consented
    /\ (AuthParametersChecked /\ req.method = "POST" /\ ~req.consented) =>
          /\ resp.kind = "redirect"
          /\ resp.error = <<ErrAccessDenied>>
          /\ resp.code = <<>>

C14_Witness ==
    /\ AuthParametersChecked
    /\ req.method = "POST"
    /\ ~req.consented
    /\ req.subject = "bobby"
    /\ ~req.encryptErr
    /\ resp.error = <<ErrAccessDenied>>
    /\ resp.code = <<>>

\* the conditions of a successful Auth
AuthSucceeds(p) ==
    /\ p.handler = "Auth"
    /\ ~p.decodeErr
    /\ URLIsAbs(p.redirectURI)
    /\ p.clientID = OAuthClientID
    /\ p.responseType = "code"
    /\ p.codeChallengeMethod = "S256"
    /\ p.method = "POST"
    /\ p.consented
    /\ p.subject # NoUser
    /\ ~p.encryptErr

\* C15: a successful Auth answers 302 to redirect_uri with no error, with
\* the state of the request, and with a code that opens under the process
\* secret to exactly the code_challenge and code_challenge_method of the
\* request and the username of the subject; Auth persists nothing.
C15_AuthSuccess ==
    [][ (resp = NoResp /\ req'.handler = "Auth") =>
          /\ UNCHANGED <<minted, discoveryPayload, redeemed, uploadVars, call>>
          /\ AuthSucceeds(req') =>
                /\ resp'.kind = "redirect"
                /\ resp'.status = 302
                /\ resp'.location = req'.redirectURI
                /\ resp'.error = <<>>
                /\ resp'.description = <<>>
                /\ resp'.state = <<req'.state>>
                /\ Len(resp'.code) = 1
                /\ resp'.code[1].kind = "sealed"
                /\ resp'.code[1].key = Secret
                /\ resp'.code[1].json
                /\ resp'.code[1].challenge = req'.codeChallenge
                /\ resp'.code[1].method = req'.codeChallengeMethod
                /\ resp'.code[1].username = req'.subject
      ]_vars

C15_Witness ==
    /\ AuthSucceeds(req)
    /\ req.codeChallenge = PKCEChallenge("myverifier")
    /\ req.subject = "bobby"
    /\ req.state = "somethingrandom"
    /\ resp.status = 302
    /\ Len(resp.code) = 1
    /\ resp.code[1].username = "bobby"

\* Token redirected with this error and description before it touched the
\* code or the token issuer
TokenRefused(err, description) ==
    /\ resp.kind = "redirect"
    /\ resp.status = 302
    /\ resp.error = <<err>>
    /\ resp.description = description
    /\ resp.steps = <<>>
    /\ resp.issuerCalls = <<>>
    /\ resp.accessToken = <<>>

\* C16: after the redirect_uri and client_id checks Token redirects with
\* invalid_request when code is empty, else with invalid_request when
\* code_verifier is empty, else with unsupported_grant_type when
\* grant_type is not "authorization_code"; the code is not decrypted and
\* no token is minted.
C16_TokenParameters ==
    (req.handler = "Token" /\ PastClientCheck) =>
        /\ req.code.kind = "empty" =>
              TokenRefused(ErrInvalidRequest, <<"missing code">>)
        /\ (req.code.kind # "empty" /\ req.codeVerifier = "") =>
              TokenRefused(ErrInvalidRequest, <<"missing code verifier">>)
        /\ (/\ req.code.kind # "empty"
            /\ req.codeVerifier # ""
            /\ req.grantType # "authorization_code") =>
              TokenRefused(ErrUnsupportedGrantType, <<>>)

C16_Witness ==
    /\ req.handler = "Token"
    /\ PastClientCheck
    /\ req.code.kind = "sealed" /\ req.code.key = Secret /\ req.code.json
    /\ req.codeVerifier = "myverifier"
    /\ req.code.challenge = PKCEChallenge("myverifier")
    /\ req.grantType = "refresh_token"
    /\ req.issuerErr = NoErr
    /\ TokenRefused(ErrUnsupportedGrantType, <<>>)

\* the code presented was not made by sealing a payload under the secret
ForgedCode ==
    ~(req.code.kind = "sealed" /\ req.code.key = Secret /\ req.code.json)

\* C17: a code that was not produced by sealing a payload under the
\* process secret never yields a token: the PKCE comparison is not
\* reached and the issuer is not called; when the request reaches the
\* decryption Token redirects with error=invalid_request.
C17_ForgedCode ==
    (req.handler = "Token" /\ ForgedCode) =>
        /\ resp.kind # "json"
        /\ resp.accessToken = <<>>
        /\ resp.issuerCalls = <<>>
        /\ \A i \in 1..Len(resp.steps) :
              resp.steps[i] \notin { "PKCE", "CreateToken" }
        /\ (/\ PastClientCheck
            /\ req.code.kind # "empty"
            /\ req.codeVerifier # ""
            /\ req.grantType = "authorization_code") =>
              /\ resp.kind = "redirect"
              /\ resp.error = <<ErrInvalidRequest>>

C17_Witness ==
    /\ req.handler = "Token"
    /\ PastClientCheck
    /\ req.code.kind = "sealed" /\ req.code.key = "other-secret"
    /\ req.code.json
    /\ req.code.username = "alice"
    /\ req.codeVerifier = "myverifier"
    /\ req.code.challenge = PKCEChallenge("myverifier")
    /\ req.grantType = "authorization_code"
    /\ req.issuerErr = NoErr
    /\ resp.error = <<ErrInvalidRequest>>
    /\ resp.steps = <<"Decrypt">>

\* C18: on a PKCE match Token calls the issuer exactly once, for the
\* username sealed in the code; when the issuer succeeds the answer is 200
\* with Content-Type application/json, Cache-Control no-store and the
\* issued token with token_type bearer; when it fails there is no 200 and
\* no access_token.
C18_TokenIssued ==
    (/\ SealedCodePresented
     /\ req.codeVerifier # ""
     /\ PKCEChallenge(req.codeVerifier) = req.code.challenge) =>
        /\ resp.issuerCalls = <<req.code.username>>
        /\ req.issuerErr = NoErr =>
              /\ resp.kind = "json"
              /\ resp.status = 200
              /\ resp.contentType = "application/json"
              /\ resp.cacheControl = "no-store"
              /\ resp.accessToken = <<req.issuerToken>>
              /\ resp.tokenType = "bearer"
        /\ req.issuerErr # NoErr =>
              /\ resp.status # 200
              /\ resp.kind # "json"
              /\ resp.accessToken = <<>>

C18_Witness ==
    /\ SealedCodePresented
    /\ req.codeVerifier = "myverifier"
    /\ req.code.challenge = PKCEChallenge("myverifier")
    /\ req.code.username = "alice"
    /\ req.issuerErr = NoErr
    /\ req.issuerToken = "tok-1"
    /\ resp.status = 200
    /\ resp.accessToken = <<"tok-1">>
    /\ resp.issuerCalls = <<"alice">>

(***************************************************************************)
(* Properties of the upload route (SpecUpload).                            *)
(***************************************************************************)
\* C2 as stated: when the body is longer than maxUploadSize the handler
\* never calls ConfigurationVersionService.Upload for that request.
C2_AsStated ==
    \A s \in Slots :
        (puts[s].ran /\ puts[s].n > maxUploadSize) =>
            /\ puts[s].pc # "upload"
            /\ ~puts[s].called

\* C3: with an Upload that succeeds, the handler answers 200 when the
\* body has at most maxUploadSize bytes and 422 when it has more, and it
\* reads at most maxUploadSize + 1 bytes of the body.
C3_SizeLimit ==
    \A s \in Slots :
        /\ puts[s].read <= maxUploadSize + 1
        /\ (puts[s].pc = "done" /\ puts[s].called /\ puts[s].err = 0) =>
              /\ puts[s].n <= maxUploadSize => StatusOf(puts[s]) = 200
              /\ puts[s].n > maxUploadSize => StatusOf(puts[s]) = 422

C3_Witness ==
    \E s \in Slots :
        /\ puts[s].pc = "done" /\ puts[s].called /\ puts[s].err = 0
        /\ maxUploadSize > 0
        /\ puts[s].n = maxUploadSize
        /\ puts[s].read = maxUploadSize
        /\ StatusOf(puts[s]) = 200

\* C4: the upload handler runs, and Upload is called, only for a request
\* that passed the verifier: its signature is the one the server handed
\* out for this path and has not expired. A request with an absent,
\* malformed, altered or foreign signature, or with an expired one, is
\* rejected before the handler runs and causes no upload.
C4_SignedOnly ==
    \A s \in Slots :
        (puts[s].ran \/ puts[s].called \/ puts[s].pc = "upload") =>
            /\ puts[s].route = "signed"
            /\ puts[s].verified
            /\ puts[s].variant = "issued"
            /\ ~puts[s].late

C4_Witness ==
    \E s \in Slots :
        /\ puts[s].pc = "done"
        /\ puts[s].route = "signed"
        /\ puts[s].variant = "issued"
        /\ puts[s].late
        /\ ~puts[s].ran
        /\ ~puts[s].called

\* C5: a version comes into being in status pending; an Upload of a
\* pending version whose write succeeds leaves it uploaded, with an
\* uploaded entry appended to statusTimestamps after the pending entry; an
\* Upload whose write fails leaves it errored.
C5_Lifecycle ==
    [][ /\ \A id \in IDs :
              (cvs[id].status = "absent" /\ cvs'[id].status # "absent") =>
                  /\ cvs'[id].status = ConfigurationPending
                  /\ cvs'[id].statusTimestamps =
                         << <<ConfigurationPending, now>> >>
        /\ \A s \in Slots :
              (/\ puts[s].pc = "upload"
               /\ puts'[s].pc = "done"
               /\ cvs[puts[s].id].status = ConfigurationPending) =>
                  LET id == puts[s].id IN
                  /\ puts'[s].outcome = "ok" =>
                        /\ cvs'[id].status = ConfigurationUploaded
                        /\ cvs'[id].statusTimestamps =
                               Append(cvs[id].statusTimestamps,
                                      <<ConfigurationUploaded, now>>)
                        /\ cvs'[id].statusTimestamps[1][1] =
                               ConfigurationPending
                  /\ puts'[s].outcome # "ok" =>
                        cvs'[id].status = ConfigurationErrored
      ]_vars

C5_Witness ==
    \E s \in Slots :
        /\ puts[s].pc = "done" /\ puts[s].called /\ puts[s].outcome = "ok"
        /\ cvs[puts[s].id].status = ConfigurationUploaded
        /\ Len(cvs[puts[s].id].statusTimestamps) = 2
        /\ cvs[puts[s].id].statusTimestamps[1][1] = ConfigurationPending
        /\ cvs[puts[s].id].statusTimestamps[2][1] = ConfigurationUploaded

(***************************************************************************)
(* Properties of concurrent requests on one version (SpecConcurrent).      *)
(***************************************************************************)
\* C6: once a version is uploaded or errored its status never changes
\* again, whatever Create, Upload, Get, List, GetLatest and Download calls
\* follow.
C6_Monotonic ==
    [][ \A id \in IDs :
            cvs[id].status \in { ConfigurationUploaded, ConfigurationErrored }
                => cvs'[id].status = cvs[id].status
      ]_vars

\* a second Upload whose write would succeed found the version errored
C6_Witness ==
    \E s \in Slots :
        /\ puts[s].pc = "done" /\ puts[s].called
        /\ puts[s].outcome = "ok" /\ puts[s].err # 0
        /\ cvs[puts[s].id].status = ConfigurationErrored

\* C7 as stated: in no reachable state is a version uploaded while its
\* archive is absent from the blob cache or only partially written: the
\* cache holds the whole body of the request whose Upload succeeded.
C7_AsStated ==
    \A id \in IDs :
        cvs[id].status = ConfigurationUploaded =>
            /\ cache[id] # NoBytes
            /\ \A s \in Slots :
                  (/\ puts[s].pc = "done" /\ puts[s].id = id
                   /\ puts[s].called /\ puts[s].err = 0) =>
                      cache[id] = Body(puts[s].n)

(***************************************************************************)
(* Properties of the Service operations (SpecLifecycle).                   *)
(***************************************************************************)
\* the target of the call has a workspace to ask about: the call names a
\* workspace, or a version that exists and that canAccess could fetch
TargetKnown ==
    /\ call.op # "none"
    /\ call.id # "" => (call.err # NotFoundError /\ ~call.fetchErr)

\* C20 as stated: every lifecycle operation asks Authorizer.CanAccess for
\* the workspace of its target before it acts, and when the authorizer
\* answers with an authorization error the operation returns that error
\* and changes nothing: Create persists no version, Delete removes
\* nothing, Upload writes no bytes and changes no status.
C20_AsStated ==
    /\ TargetKnown => call.checked
    /\ (TargetKnown /\ ~call.allow) =>
          /\ call.err = AuthorizationError
          /\ ~call.changed

(***************************************************************************)
(* Properties of the responses of the upload handler (SpecUpload).         *)
(***************************************************************************)
\* C24 as stated: UploadConfigurationVersion writes at most one error
\* response per request, on every path, and never writes an error response
\* and then goes on to call the storage upload.
C24_AsStated ==
    \A s \in Slots :
        /\ Len(puts[s].writes) <= 1
        /\ puts[s].pc = "upload" => puts[s].writes = <<>>
        /\ (puts[s].called /\ puts[s].err = 0) => puts[s].writes = <<>>

(***************************************************************************)
(* Service discovery                                                       *)
(***************************************************************************)
\* C21: the discovery document is computed once and never changes; every
\* Discovery call, after any other requests, answers 200 with Content-Type
\* application/json and the same JSON, in which login.v1 has the Auth
\* route, the Token route, the client "terraform" and the ports
\* [10000, 10010], motd.v1 is "/api/terraform/motd", modules.v1 the module
\* prefix and state.v2, tfe.v2, tfe.v2.1 and tfe.v2.2 the API v2 prefix.
C21_Discovery ==
    /\ [](req.handler = "Discovery" =>
            /\ resp.kind = "json"
            /\ resp.status = 200
            /\ resp.contentType = "application/json"
            /\ resp.payload = MustJSONMarshal(DiscoveryDocument)
            /\ Len(resp.payload) = 7
            /\ Member(Member(resp.payload, "login.v1"), "authz") = AuthRoute
            /\ Member(Member(resp.payload, "login.v1"), "token") = TokenRoute
            /\ Member(Member(resp.payload, "login.v1"), "client")
                   = "terraform"
            /\ Member(Member(resp.payload, "login.v1"), "ports")
                   = <<10000, 10010>>
            /\ Member(resp.payload, "motd.v1") = "/api/terraform/motd"
            /\ Member(resp.payload, "modules.v1") = ModuleV1Prefix
            /\ \A name \in { "state.v2", "tfe.v2", "tfe.v2.1", "tfe.v2.2" } :
                   Member(resp.payload, name) = APIPrefixV2)
    /\ [][discoveryPayload' = discoveryPayload]_vars

\* a Discovery call answered after tokens were minted by earlier requests
C21_Witness ==
    /\ req.handler = "Discovery"
    /\ resp.status = 200
    /\ resp.payload = discoveryPayload
    /\ minted = MaxMint

(***************************************************************************)
(* Upload URLs in the responses of the configuration version handlers      *)
(***************************************************************************)
\* C22: only the response of createConfigurationVersion carries a signed
\* upload URL; it signs the path /configuration-versions/<id>/upload of the
\* version it has just created, with a lifetime of one hour from the
\* request; the responses of get and list carry the empty upload URL; and
\* when signing fails create returns the error while the version is
\* already persisted in status pending.
C22_UploadURL ==
    /\ [](/\ (api.handler \in { "get", "list" }) =>
                 api.uploadURL = NoSignedURL
          /\ api.uploadURL # NoSignedURL =>
                 /\ api.handler = "create"
                 /\ api.err = NoErr
                 /\ api.status = "pending"
                 /\ api.uploadURL.key = Secret
                 /\ api.uploadURL.path
                        = "/configuration-versions/" \o api.id \o "/upload"
                 /\ cvs[api.id].status # "absent"
                 /\ urls[api.id] = api.uploadURL.expiry
          /\ (api.handler = "create" /\ api.err = NoErr) =>
                 api.uploadURL # NoSignedURL
          /\ (api.handler = "create" /\ api.err = SignError) =>
                 /\ api.uploadURL = NoSignedURL
                 /\ cvs[api.id].status # "absent"
                 /\ urls[api.id] = NoURL)
    /\ [][\A id \in IDs :
            /\ (cvs[id].status = "absent" /\ cvs'[id].status # "absent") =>
                  /\ cvs'[id].status = "pending"
                  /\ creating'[id] = cvs'[id]
                  /\ UNCHANGED <<api, urls>>
            /\ urls'[id] # urls[id] =>
                  /\ creating[id].status = "pending"
                  /\ creating[id].statusTimestamps[1][2] <= now
                  /\ UNCHANGED cvs
                  /\ api'.handler = "create"
                  /\ api'.id = id
                  /\ api'.err = NoErr
                  /\ api'.uploadURL.expiry = now + 1
                  /\ urls'[id] = now + 1
            /\ (api'.handler = "create" /\ api'.id = id
                /\ api'.err = SignError /\ api' # api) =>
                  /\ creating[id].status = "pending"
                  /\ UNCHANGED <<cvs, urls>>]_vars

\* a create request whose signing failed after the clock had advanced: an
\* error is returned and the version stays persisted in status pending
C22_Witness ==
    /\ api.handler = "create"
    /\ api.err = SignError
    /\ api.uploadURL = NoSignedURL
    /\ cvs[api.id].status = "pending"
    /\ cvs[api.id].statusTimestamps[1][2] < now

(***************************************************************************)
(* Replay of authorization codes                                           *)
(***************************************************************************)
\* C23: Token keeps no record of redeemed codes and reads no clock: its
\* response is a function of the parameters of the call alone, whatever
\* requests came before; a code sealed under the process secret, presented
\* with its verifier, is exchanged for the token the issuer returns on
\* every call, also when the same code was already exchanged.
C23_Replay ==
    [][(resp = NoResp /\ req'.handler = "Token") =>
          /\ resp' = TokenResponse(req')
          /\ (/\ ~req'.decodeErr
              /\ ~URLParseErr(req'.redirectURI)
              /\ req'.clientID = "terraform"
              /\ req'.grantType = "authorization_code"
              /\ req'.code.kind = "sealed"
              /\ req'.code.key = Secret
              /\ req'.code.json
              /\ req'.codeVerifier # ""
              /\ PKCEChallenge(req'.codeVerifier) = req'.code.challenge
              /\ req'.issuerErr = NoErr) =>
                 /\ resp'.kind = "json"
                 /\ resp'.status = 200
                 /\ resp'.accessToken = <<req'.issuerToken>>
                 /\ minted' = minted + 1
                 /\ redeemed' = Append(redeemed, req'.code)]_vars

\* the same code exchanged for a token twice, with an Auth request having
\* been possible in between
C23_Witness ==
    /\ Len(redeemed) >= 2
    /\ redeemed[1] = redeemed[2]
    /\ req.handler = "Token"
    /\ req.code = redeemed[2]
    /\ resp.kind = "json"
    /\ resp.status = 200
    /\ minted = 2

====
